---- MODULE Spec2Model ----
(***************************************************************************)
(* CreateMultilanguageInstaller.py: the Datasmith Max exporter's           *)
(* multi-language installer step.  The script checks its install location, *)
(* checks the en-us package, copies it to <build_dir>/Master and calls     *)
(* CreateAndEmbedLangTransform.bat once per culture, one call at a time.   *)
(*                                                                         *)
(* Paths are sequences of components and strings that the script parses    *)
(* are sequences of one-character strings.  assert statements are modelled *)
(* as the default interpreter runs them (__debug__ true); an uncaught      *)
(* exception ends the interpreter with exit status 1.                      *)
(***************************************************************************)
EXTENDS Integers, Sequences, FiniteSets, TLC

\* How many times in succession the script is run on the same build directory.
MaxRuns == 2

\* Popen.returncode of a child that has not exited; the script's own exit
\* status while it is still running.
Running == 0 - 1

VARIABLES
    argv,           \* sys.argv
    binariesIsDir,  \* whether <engine_path>/Binaries is a directory
    toolPresent,    \* whether CreateAndEmbedLangTransform.bat can be launched
    enMsi,          \* <build_dir>/en-us/UnrealDatasmithMaxExporter.msi
    masterDir,      \* kind of <build_dir>/Master
    masterMsi,      \* <build_dir>/Master/UnrealDatasmithMaxExporter.msi
    nestedMsi,      \* the entry of that name inside masterMsi when it is a directory
    masterOthers,   \* the other entries of <build_dir>/Master
    pc,             \* the statement the interpreter is at
    build_dir,      \* line 11
    idx,            \* how many items the for loop of line 39 has taken
    culture,        \* <<culture_name, culture_code>> of line 40
    calls,          \* the command line of every child launched by this run
    rc,             \* rc[i]: the exit status of child i, Running before it exits
    inFlight,       \* the children that are running
    exitStatus,     \* the exit status of the interpreter
    failure,        \* the statement whose exception ended the run
    passed,         \* the assert statements that held in this run
    run,            \* the number of the current run
    history,        \* <<calls, rc, exitStatus>> of the runs before it
    atStart,        \* the Master directory as the current run found it
    firstInvoke     \* masterMsi as it was when the run's first child was launched

env == <<argv, binariesIsDir, toolPresent>>
disk == <<enMsi, masterDir, masterMsi, nestedMsi, masterOthers>>
proc == <<pc, build_dir, idx, culture, calls, rc, inFlight, exitStatus, failure, passed>>
hist == <<run, history, atStart, firstInvoke>>
vars == <<env, disk, proc, hist>>

----------------------------------------------------------------------------
(* Paths and strings *)

\* Path(__file__).resolve() of the script in the engine tree.
ScriptFile ==
    <<"/", "UE5", "Engine", "Source", "Programs", "Enterprise", "Datasmith",
      "DatasmithMaxExporter", "InstallerDirectLink", "CreateMultilanguageInstaller.py">>

\* PurePath.parents[n]: the path without its last n+1 components.
Parents(p, n) == SubSeq(p, 1, Len(p) - 1 - n)

\* PurePath.__truediv__ with a relative right-hand side.
Join(p, rel) == p \o rel

Cwd == <<"/", "UE5", "Build">>

\* Path.resolve(): an absolute path stays, a relative one is taken from the
\* working directory.
Resolve(p) == IF Len(p) > 0 /\ p[1] = "/" THEN p ELSE Cwd \o p

engine_path == Parents(ScriptFile, 6)

scripts_dir ==
    Resolve(Join(engine_path,
        <<"Restricted", "NotForLicensees", "Programs", "UnrealEngineInstaller",
          "UnrealEngineInstaller", "Localization", "Scripts">>))

msi_name == "UnrealDatasmithMaxExporter.msi"

en_msi_dir == Join(build_dir, <<"en-us">>)
en_msi_path == Join(en_msi_dir, <<msi_name>>)
master_msi_dir == Join(build_dir, <<"Master">>)
master_msi_path == Join(master_msi_dir, <<msi_name>>)

\* The string literal of line 39.
LocaleText ==
    << "d", "e", "-", "d", "e", ":", "1", "0", "3", "1", ",", " ",
       "k", "o", "-", "k", "r", ":", "1", "0", "4", "2", ",", " ",
       "e", "s", "-", "e", "s", ":", "1", "0", "3", "4", ",", " ",
       "f", "r", "-", "f", "r", ":", "1", "0", "3", "6", ",", " ",
       "j", "a", "-", "j", "p", ":", "1", "0", "4", "1", ",", " ",
       "p", "t", "-", "p", "t", ":", "2", "0", "7", "0", ",", " ",
       "z", "h", "-", "c", "n", ":", "2", "0", "5", "2" >>

StartsWith(s, i, sep) ==
    /\ i + Len(sep) - 1 <= Len(s)
    /\ SubSeq(s, i, i + Len(sep) - 1) = sep

RECURSIVE SplitFrom(_, _, _, _)
SplitFrom(s, sep, i, cur) ==
    IF i > Len(s) THEN <<cur>>
    ELSE IF StartsWith(s, i, sep)
         THEN <<cur>> \o SplitFrom(s, sep, i + Len(sep), <<>>)
         ELSE SplitFrom(s, sep, i + 1, Append(cur, s[i]))

\* str.split(sep): the pieces between the occurrences of sep, left to right.
Split(s, sep) == SplitFrom(s, sep, 1, <<>>)

\* A plausible slip: the list is walked from its end.
LocalesReversed ==
    LET ls == Split(LocaleText, <<",", " ">>)
    IN  [i \in 1..Len(ls) |-> ls[Len(ls) + 1 - i]]

\* The list the for loop of line 39 iterates over.
Locales == Split(LocaleText, <<",", " ">>)

----------------------------------------------------------------------------
(* Files *)

Bases == {"A", "B"}

\* What a package file holds: the build it came from, the cultures whose
\* transforms are embedded, and whether an interrupted embedding left a mark.
NoContent == [base |-> "-", langs |-> <<>>, partial |-> FALSE]
Fresh(b) == [base |-> b, langs |-> <<>>, partial |-> FALSE]

Absent == [kind |-> "absent", content |-> NoContent]
Dir == [kind |-> "dir", content |-> NoContent]
File(c) == [kind |-> "file", content |-> c]

\* Path.is_file() and Path.is_dir()
is_file(e) == e.kind = "file"
is_dir(k) == k = "dir"

OtherNames == {"readme.txt"}

\* The contents a Master package may hold before the first run: a plain copy
\* of some build's package, or one a previous run localized completely.
CultureNames == [i \in 1..Len(Locales) |-> Split(Locales[i], <<":">>)[1]]

InitialMasterContents ==
    {Fresh(b) : b \in Bases}
        \cup {[base |-> b, langs |-> CultureNames, partial |-> FALSE] : b \in Bases}

\* The build directory the modelled files live in, and the two spellings of
\* it the command line may give.
BuildRoot == <<"/", "UE5", "Build", "Out">>
ArgvChoices ==
    { <<ScriptFile>>,
      <<ScriptFile, <<"Out">>>>,
      <<ScriptFile, BuildRoot>>,
      <<ScriptFile, BuildRoot, <<"Scripts">>>> }

\* os.stat of a path: the modelled entries of the build directory, nothing else.
Stat(p) ==
    CASE p = Join(BuildRoot, <<"en-us", msi_name>>) -> enMsi
      [] p = Join(BuildRoot, <<"Master">>) -> [kind |-> masterDir, content |-> NoContent]
      [] p = Join(BuildRoot, <<"Master", msi_name>>) ->
            IF masterDir = "dir" THEN masterMsi ELSE Absent
      [] OTHER -> Absent

Snapshot ==
    [masterDir |-> masterDir, masterMsi |-> masterMsi,
     nestedMsi |-> nestedMsi, masterOthers |-> masterOthers]

ExitCodes == {0, 1}

----------------------------------------------------------------------------
(* The state a run starts from *)

Init ==
    /\ argv \in ArgvChoices
    /\ binariesIsDir \in BOOLEAN
    /\ toolPresent \in BOOLEAN
    /\ enMsi \in {Absent, Dir} \cup {File(Fresh(b)) : b \in Bases}
    /\ masterDir \in {"absent", "file", "dir"}
    /\ masterMsi \in IF masterDir = "dir"
                     THEN {Absent, Dir} \cup {File(c) : c \in InitialMasterContents}
                     ELSE {Absent}
    /\ nestedMsi \in IF masterMsi.kind = "dir"
                     THEN {Absent, Dir, File(Fresh("A"))}
                     ELSE {Absent}
    /\ masterOthers \in IF masterDir = "dir" THEN SUBSET OtherNames ELSE {{}}
    /\ pc = "start"
    /\ build_dir = <<>>
    /\ idx = 0
    /\ culture = <<>>
    /\ calls = <<>>
    /\ rc = <<>>
    /\ inFlight = {}
    /\ exitStatus = Running
    /\ failure = "none"
    /\ passed = {}
    /\ run = 1
    /\ history = <<>>
    /\ atStart = Snapshot
    /\ firstInvoke = Absent

----------------------------------------------------------------------------
(* The statements of the script *)

\* An uncaught exception raised by statement `why`: traceback, exit status 1.
Abort(why) ==
    /\ pc' = "done"
    /\ exitStatus' = 1
    /\ failure' = why
    /\ UNCHANGED <<build_dir, idx, culture, calls, rc, inFlight, passed>>

\* Lines 8-9: engine_path and the assert on <engine_path>/Binaries.
ResolveAnchor ==
    /\ pc = "start"
    /\ IF is_dir(IF binariesIsDir THEN "dir" ELSE "absent")
       THEN /\ pc' = "argv"
            /\ passed' = passed \cup {"anchor"}
            /\ UNCHANGED <<build_dir, idx, culture, calls, rc, inFlight, exitStatus, failure>>
       ELSE Abort("anchor")
    /\ UNCHANGED <<env, disk, hist>>

\* Line 11: build_dir = Path(sys.argv[1]).resolve(); IndexError without an
\* argument.  sys.argv[1] is argv[2] here, sequences being 1-based.
ResolveBuildDir ==
    /\ pc = "argv"
    /\ IF Len(argv) >= 2
       THEN /\ build_dir' = Resolve(argv[2])
            /\ pc' = "verify_base"
            /\ UNCHANGED <<idx, culture, calls, rc, inFlight, exitStatus, failure, passed>>
       ELSE Abort("argv")
    /\ UNCHANGED <<env, disk, hist>>

\* A plausible slip: the assert of line 20 is missing.
VerifyBaseUnchecked ==
    /\ pc = "verify_base"
    /\ pc' = "mkdir"
    /\ passed' = passed \cup {"base"}
    /\ UNCHANGED <<build_dir, idx, culture, calls, rc, inFlight, exitStatus, failure>>
    /\ UNCHANGED <<env, disk, hist>>

\* Lines 17-20: assert en_msi_path.is_file()
VerifyBase ==
    /\ pc = "verify_base"
    /\ IF is_file(Stat(en_msi_path))
       THEN /\ pc' = "mkdir"
            /\ passed' = passed \cup {"base"}
            /\ UNCHANGED <<build_dir, idx, culture, calls, rc, inFlight, exitStatus, failure>>
       ELSE Abort("base")
    /\ UNCHANGED <<env, disk, hist>>

\* A plausible slip: mkdir without exist_ok, which raises FileExistsError on
\* any existing entry.
MakeMasterDirStrict ==
    /\ pc = "mkdir"
    /\ IF Stat(master_msi_dir).kind = "absent"
       THEN /\ masterDir' = "dir"
            /\ pc' = "copy"
            /\ UNCHANGED <<build_dir, idx, culture, calls, rc, inFlight, exitStatus, failure, passed>>
       ELSE /\ Abort("mkdir")
            /\ UNCHANGED masterDir
    /\ UNCHANGED <<enMsi, masterMsi, nestedMsi, masterOthers, env, hist>>

\* A plausible slip: the output directory is emptied before it is reused.
MakeMasterDirClean ==
    /\ pc = "mkdir"
    /\ IF Stat(master_msi_dir).kind = "file"
       THEN /\ Abort("mkdir")
            /\ UNCHANGED <<masterDir, masterMsi, nestedMsi, masterOthers>>
       ELSE /\ masterDir' = "dir"
            /\ masterMsi' = Absent
            /\ nestedMsi' = Absent
            /\ masterOthers' = {}
            /\ pc' = "copy"
            /\ UNCHANGED <<build_dir, idx, culture, calls, rc, inFlight, exitStatus, failure, passed>>
    /\ UNCHANGED <<enMsi, env, hist>>

\* Lines 22-25: master_msi_dir.mkdir(parents=True, exist_ok=True).  The parent
\* exists (line 20 passed); an existing directory is left alone; an existing
\* entry that is no directory raises FileExistsError.
MakeMasterDir ==
    /\ pc = "mkdir"
    /\ IF Stat(master_msi_dir).kind = "file"
       THEN /\ Abort("mkdir")
            /\ UNCHANGED masterDir
       ELSE /\ masterDir' = "dir"
            /\ pc' = "copy"
            /\ UNCHANGED <<build_dir, idx, culture, calls, rc, inFlight, exitStatus, failure, passed>>
    /\ UNCHANGED <<enMsi, masterMsi, nestedMsi, masterOthers, env, hist>>

\* A plausible slip: an existing target file is kept instead of overwritten.
CopyArtifactKeep ==
    /\ pc = "copy"
    /\ IF Stat(master_msi_path).kind = "dir"
       THEN IF nestedMsi.kind = "dir"
            THEN /\ Abort("copy")
                 /\ UNCHANGED <<masterMsi, nestedMsi>>
            ELSE /\ nestedMsi' = File(Stat(en_msi_path).content)
                 /\ pc' = "verify_copy"
                 /\ UNCHANGED masterMsi
                 /\ UNCHANGED <<build_dir, idx, culture, calls, rc, inFlight, exitStatus, failure, passed>>
       ELSE /\ masterMsi' = IF is_file(masterMsi) THEN masterMsi
                                                  ELSE File(Stat(en_msi_path).content)
            /\ pc' = "verify_copy"
            /\ UNCHANGED nestedMsi
            /\ UNCHANGED <<build_dir, idx, culture, calls, rc, inFlight, exitStatus, failure, passed>>
    /\ UNCHANGED <<enMsi, masterDir, masterOthers, env, hist>>

\* Line 27: shutil.copy(en_msi_dir/msi_name, master_msi_path).  A destination
\* that is a directory receives the file under the source's name; opening a
\* directory for writing raises; otherwise the destination is created or
\* truncated and receives the source's bytes.
CopyArtifact ==
    /\ pc = "copy"
    /\ IF Stat(master_msi_path).kind = "dir"
       THEN IF nestedMsi.kind = "dir"
            THEN /\ Abort("copy")
                 /\ UNCHANGED <<masterMsi, nestedMsi>>
            ELSE /\ nestedMsi' = File(Stat(Join(en_msi_dir, <<msi_name>>)).content)
                 /\ pc' = "verify_copy"
                 /\ UNCHANGED masterMsi
                 /\ UNCHANGED <<build_dir, idx, culture, calls, rc, inFlight, exitStatus, failure, passed>>
       ELSE /\ masterMsi' = File(Stat(Join(en_msi_dir, <<msi_name>>)).content)
            /\ pc' = "verify_copy"
            /\ UNCHANGED nestedMsi
            /\ UNCHANGED <<build_dir, idx, culture, calls, rc, inFlight, exitStatus, failure, passed>>
    /\ UNCHANGED <<enMsi, masterDir, masterOthers, env, hist>>

\* A plausible slip: the assert of line 29 is missing.
VerifyCopyUnchecked ==
    /\ pc = "verify_copy"
    /\ pc' = "loop"
    /\ passed' = passed \cup {"copy"}
    /\ UNCHANGED <<build_dir, idx, culture, calls, rc, inFlight, exitStatus, failure>>
    /\ UNCHANGED <<env, disk, hist>>

\* Line 29: assert master_msi_path.is_file()
VerifyCopy ==
    /\ pc = "verify_copy"
    /\ IF is_file(Stat(master_msi_path))
       THEN /\ pc' = "loop"
            /\ passed' = passed \cup {"copy"}
            /\ UNCHANGED <<build_dir, idx, culture, calls, rc, inFlight, exitStatus, failure>>
       ELSE Abort("verify_copy")
    /\ UNCHANGED <<env, disk, hist>>

\* Lines 39-40: the for loop takes the next item and unpacks l.split(':').
LoopNext ==
    /\ pc = "loop"
    /\ idx < Len(Locales)
    /\ idx' = idx + 1
    /\ culture' = <<Split(Locales[idx + 1], <<":">>)[1], Split(Locales[idx + 1], <<":">>)[2]>>
    /\ pc' = "add_language"
    /\ UNCHANGED <<build_dir, calls, rc, inFlight, exitStatus, failure, passed>>
    /\ UNCHANGED <<env, disk, hist>>

\* Line 39, list exhausted: the script ends and the interpreter exits with 0.
LoopEnd ==
    /\ pc = "loop"
    /\ idx = Len(Locales)
    /\ pc' = "done"
    /\ exitStatus' = 0
    /\ UNCHANGED <<build_dir, idx, culture, calls, rc, inFlight, failure, passed>>
    /\ UNCHANGED <<env, disk, hist>>

\* A plausible slip: the culture name and code change places.
CmdSwapped(culture_name, culture_code) ==
    [tool |-> Join(scripts_dir, <<"CreateAndEmbedLangTransform.bat">>),
     source_dir |-> en_msi_dir,
     name |-> msi_name,
     culture_name |-> culture_code,
     culture_code |-> culture_name,
     target_dir |-> master_msi_dir]

\* Lines 32-36: the command line, the executable and its five arguments.
Cmd(culture_name, culture_code) ==
    [tool |-> Join(scripts_dir, <<"CreateAndEmbedLangTransform.bat">>),
     source_dir |-> en_msi_dir,
     name |-> msi_name,
     culture_name |-> culture_name,
     culture_code |-> culture_code,
     target_dir |-> master_msi_dir]

\* A plausible slip: subprocess.Popen in place of check_call, so the loop
\* goes on while the child runs.
AddLanguageNoWait ==
    /\ pc = "add_language"
    /\ IF toolPresent
       THEN /\ calls' = Append(calls, Cmd(culture[1], culture[2]))
            /\ rc' = Append(rc, Running)
            /\ inFlight' = inFlight \cup {Len(calls) + 1}
            /\ firstInvoke' = IF calls = <<>> THEN Stat(master_msi_path) ELSE firstInvoke
            /\ pc' = "loop"
            /\ UNCHANGED <<build_dir, idx, culture, exitStatus, failure, passed>>
       ELSE /\ Abort("launch")
            /\ UNCHANGED firstInvoke
    /\ UNCHANGED <<env, disk, run, history, atStart>>

\* Lines 31-37, first half of subprocess.check_call: the child is started, or
\* OSError is raised when the executable cannot be started.
AddLanguage ==
    /\ pc = "add_language"
    /\ IF toolPresent
       THEN /\ calls' = Append(calls, Cmd(culture[1], culture[2]))
            /\ rc' = Append(rc, Running)
            /\ inFlight' = inFlight \cup {Len(calls) + 1}
            /\ firstInvoke' = IF calls = <<>> THEN Stat(master_msi_path) ELSE firstInvoke
            /\ pc' = "wait"
            /\ UNCHANGED <<build_dir, idx, culture, exitStatus, failure, passed>>
       ELSE /\ Abort("launch")
            /\ UNCHANGED firstInvoke
    /\ UNCHANGED <<env, disk, run, history, atStart>>

\* CreateAndEmbedLangTransform.bat: a running child edits
\* <target_dir>/<name> in place and exits.  Exit status 0 means the culture's
\* transform is embedded; a failing child may leave a mark in the file.
ToolExit ==
    \E p \in inFlight, code \in ExitCodes, mark \in BOOLEAN :
        /\ code = 0 =>
              /\ ~mark
              /\ Join(calls[p].target_dir, <<calls[p].name>>) = Join(BuildRoot, <<"Master", msi_name>>)
              /\ is_file(masterMsi)
        /\ inFlight' = inFlight \ {p}
        /\ rc' = [rc EXCEPT ![p] = code]
        /\ masterMsi' =
              IF ~is_file(masterMsi) THEN masterMsi
              ELSE IF code = 0
                   THEN File([masterMsi.content EXCEPT
                                 !.langs = Append(@, calls[p].culture_name)])
                   ELSE File([masterMsi.content EXCEPT !.partial = @ \/ mark])
        /\ UNCHANGED <<pc, build_dir, idx, culture, calls, exitStatus, failure, passed>>
        /\ UNCHANGED <<enMsi, masterDir, nestedMsi, masterOthers, env, hist>>

\* A plausible slip: subprocess.call in place of check_call, the exit status
\* of the child is dropped.
CheckCallIgnore ==
    /\ pc = "wait"
    /\ rc[Len(calls)] # Running
    /\ pc' = "loop"
    /\ UNCHANGED <<build_dir, idx, culture, calls, rc, inFlight, exitStatus, failure, passed>>
    /\ UNCHANGED <<env, disk, hist>>

\* A plausible slip: a failed call is followed by a clean-up that restores
\* the plain copy before the exception goes on.
CheckCallRollback ==
    /\ pc = "wait"
    /\ rc[Len(calls)] # Running
    /\ IF rc[Len(calls)] = 0
       THEN /\ pc' = "loop"
            /\ UNCHANGED <<build_dir, idx, culture, calls, rc, inFlight, exitStatus, failure, passed>>
            /\ UNCHANGED masterMsi
       ELSE /\ Abort("tool")
            /\ masterMsi' = File(enMsi.content)
    /\ UNCHANGED <<enMsi, masterDir, nestedMsi, masterOthers, env, hist>>

\* Line 37, second half of subprocess.check_call: wait for the child, raise
\* CalledProcessError when its exit status is not zero.
CheckCall ==
    /\ pc = "wait"
    /\ rc[Len(calls)] # Running
    /\ IF rc[Len(calls)] = 0
       THEN /\ pc' = "loop"
            /\ UNCHANGED <<build_dir, idx, culture, calls, rc, inFlight, exitStatus, failure, passed>>
       ELSE Abort("tool")
    /\ UNCHANGED <<env, disk, hist>>

\* The script is run again on the same build directory, with the same
\* command line, once the previous run has ended.
Rerun ==
    /\ pc = "done"
    /\ inFlight = {}
    /\ run < MaxRuns
    /\ run' = run + 1
    /\ history' = Append(history, [calls |-> calls, rc |-> rc, exitStatus |-> exitStatus])
    /\ atStart' = Snapshot
    /\ firstInvoke' = Absent
    /\ pc' = "start"
    /\ build_dir' = <<>>
    /\ idx' = 0
    /\ culture' = <<>>
    /\ calls' = <<>>
    /\ rc' = <<>>
    /\ exitStatus' = Running
    /\ failure' = "none"
    /\ passed' = {}
    /\ UNCHANGED <<inFlight, env, disk>>

Next ==
    \/ ResolveAnchor
    \/ ResolveBuildDir
    \/ VerifyBase
    \/ MakeMasterDir
    \/ CopyArtifact
    \/ VerifyCopy
    \/ LoopNext
    \/ LoopEnd
    \/ AddLanguage
    \/ ToolExit
    \/ CheckCall
    \/ Rerun

Spec == Init /\ [][Next]_vars

TypeOK ==
    /\ pc \in {"start", "argv", "verify_base", "mkdir", "copy", "verify_copy",
               "loop", "add_language", "wait", "done"}
    /\ exitStatus \in {Running, 0, 1}
    /\ idx \in 0..Len(Locales)
    /\ Len(rc) = Len(calls)
    /\ run \in 1..MaxRuns

----------------------------------------------------------------------------
(* Properties *)

\* The fixed culture table as the documentation lists it.
FixedTable ==
    << << <<"d", "e", "-", "d", "e">>, <<"1", "0", "3", "1">> >>,
       << <<"k", "o", "-", "k", "r">>, <<"1", "0", "4", "2">> >>,
       << <<"e", "s", "-", "e", "s">>, <<"1", "0", "3", "4">> >>,
       << <<"f", "r", "-", "f", "r">>, <<"1", "0", "3", "6">> >>,
       << <<"j", "a", "-", "j", "p">>, <<"1", "0", "4", "1">> >>,
       << <<"p", "t", "-", "p", "t">>, <<"2", "0", "7", "0">> >>,
       << <<"z", "h", "-", "c", "n">>, <<"2", "0", "5", "2">> >> >>

IsPrefixOfTable(cs) ==
    /\ Len(cs) <= Len(FixedTable)
    /\ \A i \in 1..Len(cs) : cs[i].culture_name = FixedTable[i][1]

Failed(code) == code # Running /\ code # 0

\* C1: in every run the cultures of the invocations made so far are a prefix
\* of de-de, ko-kr, es-es, fr-fr, ja-jp, pt-pt, zh-cn: declared order, none
\* skipped, reordered or repeated.
C1_DeclaredOrder ==
    /\ IsPrefixOfTable(calls)
    /\ \A r \in 1..Len(history) : IsPrefixOfTable(history[r].calls)

C1_Witness == Len(calls) = Len(FixedTable) /\ pc = "done"

\* C2: at most one invocation is in flight; an invocation begins only after
\* the one before it exited with status zero; once an invocation has exited
\* non-zero no later one exists and the run does not end with status zero.
C2_OneAtATime ==
    /\ Cardinality(inFlight) <= 1
    /\ \A i \in 1..Len(calls) : i < Len(calls) => rc[i] = 0
    /\ \A i \in 1..Len(calls) :
          Failed(rc[i]) => /\ i = Len(calls)
                           /\ pc = "done" => exitStatus # 0

C2_Witness ==
    /\ pc = "done"
    /\ Len(calls) = 3
    /\ calls[3].culture_name = <<"e", "s", "-", "e", "s">>
    /\ Failed(rc[3])
    /\ exitStatus # 0

\* C3: when the en-us package is not a regular file, the Master directory and
\* the Master package stay exactly as the run found them, no invocation is
\* made, and the run does not end with status zero.
C3_AbortBeforeMaster ==
    ~is_file(enMsi) =>
        /\ Snapshot = atStart
        /\ calls = <<>>
        /\ pc \notin {"mkdir", "copy", "verify_copy", "loop", "add_language", "wait"}
        /\ pc = "done" => exitStatus # 0

C3_Witness ==
    /\ pc = "done"
    /\ failure = "base"
    /\ enMsi.kind = "dir"
    /\ masterDir = "absent"

\* C4: whenever an invocation has begun, the Master package was a regular
\* file at the moment the run's first invocation began.
C4_MasterFileBeforeInvoke == calls # <<>> => is_file(firstInvoke)

C4_Witness == calls # <<>> /\ atStart.masterDir = "absent"

\* C5: at the moment the first invocation begins the Master package holds
\* exactly the bytes of the en-us package, whatever it held before the run.
C5_MasterIsBaseCopy == calls # <<>> => firstInvoke = File(enMsi.content)

C5_Witness ==
    /\ calls # <<>>
    /\ is_file(atStart.masterMsi)
    /\ atStart.masterMsi.content.langs # <<>>
    /\ atStart.masterMsi.content.base # enMsi.content.base

\* C6, as stated: when the Master directory exists at the start, neither the
\* directory creation nor the copy fails, and the other entries of the Master
\* directory stay as they were.
C6_AsStated ==
    atStart.masterDir = "dir" =>
        /\ failure \notin {"mkdir", "copy"}
        /\ masterOthers = atStart.masterOthers

\* C6, amended: the same, unless the entry UnrealDatasmithMaxExporter.msi of
\* the Master directory is itself a directory holding a directory of that name.
C6_ExistingMasterKept ==
    (/\ atStart.masterDir = "dir"
     /\ ~(atStart.masterMsi.kind = "dir" /\ atStart.nestedMsi.kind = "dir")) =>
        /\ failure \notin {"mkdir", "copy"}
        /\ masterOthers = atStart.masterOthers

C6_Witness ==
    /\ atStart.masterDir = "dir"
    /\ atStart.masterOthers # {}
    /\ is_file(atStart.masterMsi)
    /\ pc = "verify_copy"

\* C7: a run that follows a run which ended with status zero, and whose
\* invocations all exit zero, fails at no statement, ends with status zero
\* and makes the same seven invocations as the run before it.
C7_SecondRunSucceeds ==
    (/\ run >= 2
     /\ history[run - 1].exitStatus = 0
     /\ \A i \in 1..Len(rc) : ~Failed(rc[i])) =>
        /\ failure = "none"
        /\ Len(history[run - 1].calls) = Len(FixedTable)
        /\ pc = "done" => /\ exitStatus = 0
                          /\ calls = history[run - 1].calls

C7_Witness ==
    /\ run = 2
    /\ history[1].exitStatus = 0
    /\ pc = "done"
    /\ exitStatus = 0
    /\ Len(calls) = Len(FixedTable)

\* C8: after an invocation failed, the Master package is still a file made of
\* the en-us copy and the transforms of exactly the invocations that
\* succeeded, nothing rolled back or cleaned up; what the failing invocation
\* itself did to the file is left in place.
C8_NoRollback ==
    failure = "tool" =>
        /\ pc = "done"
        /\ is_file(masterMsi)
        /\ masterMsi.content.base = enMsi.content.base
        /\ masterMsi.content.langs = [i \in 1..(Len(calls) - 1) |-> calls[i].culture_name]

C8_Witness ==
    /\ failure = "tool"
    /\ Len(calls) = 3
    /\ masterMsi.content.partial

\* C9: a run ends with status zero exactly when the three asserts held and
\* all seven invocations were made and exited zero; a failed statement or a
\* non-zero exit of the tool ends it with a non-zero status.
C9_ExitStatus ==
    pc = "done" =>
        /\ exitStatus = 0 <=>
              /\ {"anchor", "base", "copy"} \subseteq passed
              /\ Len(calls) = Len(FixedTable)
              /\ \A i \in 1..Len(rc) : rc[i] = 0
        /\ failure # "none" => exitStatus \notin {0, Running}
        /\ (\E i \in 1..Len(rc) : Failed(rc[i])) => exitStatus \notin {0, Running}

C9_Witness == pc = "done" /\ exitStatus = 0 /\ run = 1

\* C10: every invocation names <build_dir>/en-us, the package name,
\* <build_dir>/Master and a culture name with the code the table pairs with
\* it; no culture is invoked twice in a run, and each is invoked when the run
\* ends with status zero.
C10_Arguments ==
    /\ \A i \in 1..Len(calls) :
          /\ calls[i].source_dir = Join(BuildRoot, <<"en-us">>)
          /\ calls[i].name = "UnrealDatasmithMaxExporter.msi"
          /\ calls[i].target_dir = Join(BuildRoot, <<"Master">>)
          /\ \E k \in 1..Len(FixedTable) :
                <<calls[i].culture_name, calls[i].culture_code>> = FixedTable[k]
    /\ \A i, j \in 1..Len(calls) :
          calls[i].culture_name = calls[j].culture_name => i = j
    /\ (pc = "done" /\ exitStatus = 0) =>
          \A k \in 1..Len(FixedTable) :
              Cardinality({i \in 1..Len(calls) : calls[i].culture_name = FixedTable[k][1]}) = 1

C10_Witness ==
    /\ pc = "done"
    /\ exitStatus = 0
    /\ argv[2] = <<"Out">>
    /\ Len(calls) = Len(FixedTable)
====
